---- MODULE Spec2Model ----
(***************************************************************************)
(* A model of package_control/ca_certs.py: the merged / user / system CA   *)
(* bundle files and the requests that (re)generate them.                   *)
(*                                                                         *)
(* File contents are sequences of tokens.  The tokens "\n" and " " are     *)
(* whitespace, every other token stands for a run of non-blank text.       *)
(***************************************************************************)
EXTENDS Integers, Sequences, FiniteSets, TLC

(***************************************************************************)
(* Bounds of the model.                                                    *)
(***************************************************************************)
\* Clock readings lie within MaxSkew seconds after 0 and after one week.
MaxSkew == 1
\* How many processes can issue requests.
NumProcs == 2
\* The longest output of `security dump-trust-settings -d`, in lines.
MaxTrustLines == 5
\* The longest output of `security export`, in chunks (a PEM block or a
\* stray line).
MaxChunks == 3
\* The longest output of `certutil -store`, in lines.
MaxStoreLines == 6
\* The longest output of `certutil -store` in a run that goes on to export
\* the hashes it lists, in lines.
MaxExportLines == 3

(***************************************************************************)
(* Program constants.                                                      *)
(***************************************************************************)
\* ca_certs.py:115, the age in seconds after which the system bundle is old
WeekSeconds == 604800

Procs == 1..NumProcs

\* The clock readings the environment can produce (time.time()).
Times == (0..MaxSkew) \cup { WeekSeconds + d : d \in 0..MaxSkew }

\* ca_certs.py:38, 80, 111: the three files kept in ca_bundle_dir
merged_ca_bundle_path == "Package Control.merged-ca-bundle"
user_ca_bundle_path == "Package Control.user-ca-bundle"
system_ca_bundle_path == "Package Control.system-ca-bundle"

\* ca_certs.py:136-143, in priority order
paths == << "/usr/lib/ssl/certs/ca-certificates.crt",
            "/etc/ssl/certs/ca-certificates.crt",
            "/etc/pki/tls/certs/ca-bundle.crt",
            "/etc/ssl/ca-bundle.pem",
            "/usr/local/share/certs/ca-root-nss.crt",
            "/etc/ssl/cert.pem" >>

ProbePaths == { paths[i] : i \in 1..Len(paths) }
BundleFiles == { merged_ca_bundle_path, user_ca_bundle_path, system_ca_bundle_path }
AllFiles == BundleFiles \cup ProbePaths

\* A file that does not exist, and a file written at time t.
Absent == [exists |-> FALSE, content |-> <<>>, mtime |-> 0]
File(c, t) == [exists |-> TRUE, content |-> c, mtime |-> t]

\* What the user may put in the user bundle.
UserContents == { <<>>, <<"u1">>, <<"\n", "u2", "\n", "u3", "\n", "\n">> }
\* What a platform builder may export: u"\n".join(certs), no trailing newline.
BuilderOutputs == { <<>>, <<"s1">>, <<"s1", "\n", "s2">> }
\* The probe paths at which the distributions of the model keep a bundle
\* (Debian's and Fedora's); no file ever exists at the other four.
DistroPaths == { paths[2], paths[3] }
\* What a distribution keeps at probe path q: its bundle, whose text differs
\* from path to path.
ProbeContents(q) == { <<q, "\n">> }

(***************************************************************************)
(* str.strip(): drops leading and trailing whitespace.                     *)
(***************************************************************************)
IsSpace(ch) == ch \in {" ", "\n"}

RECURSIVE lstrip(_)
lstrip(s) == IF s # <<>> /\ IsSpace(Head(s)) THEN lstrip(Tail(s)) ELSE s

RECURSIVE rstrip(_)
rstrip(s) == IF s # <<>> /\ IsSpace(s[Len(s)])
             THEN rstrip(SubSeq(s, 1, Len(s) - 1))
             ELSE s

\* strip() that drops trailing whitespace only.
stripMutant(s) == rstrip(s)
strip(s) == rstrip(lstrip(s))

\* ca_certs.py:53-55 and 58-60: the stripped text, then b'\n' if it is not empty
WithNewline(certs) == IF Len(certs) > 0 THEN certs \o <<"\n">> ELSE certs

VARIABLES
    platform,    \* sys.platform: "darwin", "win32" or "linux"
    release,     \* platform.release(): "XP" or "other"
    now,         \* time.time()
    dirExists,   \* does ca_bundle_dir exist
    fs,          \* the files: path -> [exists, content, mtime]
    active,      \* the processes that issue requests
    pc,          \* where each process is inside get_ca_bundle_path
    ca_path,     \* per process: what get_system_ca_bundle_path returned
    buf,         \* per process: the text a builder has collected to write
    call,        \* per process: what the current / last request did (history)
    changed,     \* have system or user bundle changed since the last request ended
    lastBuilt,   \* when a builder last returned without failure (-1: never)
    written,     \* per process: what it has written through its handle of the
                 \* merged file since open(); the handle's position is its length
    osx,         \* one run of _osx_create_ca_bundle, see OsxStart
    win          \* one run of _win_create_ca_bundle, see WinStart

fsVars == << platform, release, now, dirExists, fs, active, pc, ca_path, buf,
             call, changed, lastBuilt, written >>

vars == << fsVars, osx, win >>

NoCall == [outcome |-> "none", invoked |-> FALSE, consecutive |-> FALSE]

Idle == \A p \in active : pc[p] = "idle"

(***************************************************************************)
(* get_system_ca_bundle_path, ca_certs.py:89-152                           *)
(***************************************************************************)
\* Line 115 with the comparison of its comment, "a week or more".
is_oldMutant(exists, mtime, t) == exists /\ mtime <= t - WeekSeconds
\* ca_certs.py:115
is_old(exists, mtime, t) == exists /\ mtime < t - WeekSeconds

\* ca_certs.py:144-147: the first probe path that exists with non-zero size
\* Lines 144-147 without the test of the size.
RECURSIVE FirstProbeMutant(_, _)
FirstProbeMutant(files, i) ==
    IF i > Len(paths) THEN "False"
    ELSE IF files[paths[i]].exists
         THEN paths[i]
         ELSE FirstProbeMutant(files, i + 1)

RECURSIVE FirstProbe(_, _)
FirstProbe(files, i) ==
    IF i > Len(paths) THEN "False"
    ELSE IF files[paths[i]].exists /\ Len(files[paths[i]].content) > 0
         THEN paths[i]
         ELSE FirstProbe(files, i + 1)

LinuxBundleLocator(files) == FirstProbe(files, 1)


(***************************************************************************)
(* The end of a request: it returns the merged path, or an exception       *)
(* leaves get_ca_bundle_path.                                              *)
(***************************************************************************)
Finish(p, how, c) ==
    /\ pc' = [pc EXCEPT ![p] = "idle"]
    /\ call' = [call EXCEPT ![p] = [c EXCEPT !.outcome = how]]
    /\ changed' = FALSE
    /\ buf' = [buf EXCEPT ![p] = <<>>]

(***************************************************************************)
(* get_ca_bundle_path, lines 34-36: ensure_ca_bundle_dir() and the call of *)
(* get_system_ca_bundle_path up to the point where a builder is invoked    *)
(* (lines 109-125) or a path is returned (lines 130-152).                  *)
(***************************************************************************)
get_system_ca_bundle_path(p) ==
    /\ pc[p] = "idle"
    /\ dirExists' = TRUE
    /\ LET sys == fs[system_ca_bundle_path]
           c0  == [NoCall EXCEPT
                     !.consecutive = (call[p].outcome = "returned" /\ ~changed)]
       IN IF platform \in {"win32", "darwin"}
          THEN IF ~sys.exists \/ is_old(sys.exists, sys.mtime, now)
               THEN /\ pc' = [pc EXCEPT ![p] = "build"]
                    /\ call' = [call EXCEPT ![p] = [c0 EXCEPT !.invoked = TRUE]]
                    /\ UNCHANGED ca_path
               ELSE /\ pc' = [pc EXCEPT ![p] = "user"]
                    /\ call' = [call EXCEPT ![p] = c0]
                    /\ ca_path' = [ca_path EXCEPT ![p] = system_ca_bundle_path]
          ELSE /\ pc' = [pc EXCEPT ![p] = "user"]
               /\ call' = [call EXCEPT ![p] = c0]
               /\ ca_path' = [ca_path EXCEPT ![p] = LinuxBundleLocator(fs)]
    /\ UNCHANGED << platform, release, now, fs, active, written, buf, changed,
                    lastBuilt >>

(***************************************************************************)
(* _osx_create_ca_bundle, lines 231-263: the external commands run and the *)
(* certificates are collected in memory; a CommandFailure leaves the       *)
(* request before the destination is opened.                               *)
(***************************************************************************)
\* _osx_create_ca_bundle with the destination opened before the commands run.
osx_collectMutant(p) ==
    /\ pc[p] = "build"
    /\ platform = "darwin"
    /\ \/ /\ Finish(p, "failed", call[p])
          /\ fs' = [fs EXCEPT ![system_ca_bundle_path] = File(<<>>, now)]
          /\ UNCHANGED << ca_path >>
       \/ /\ \E out \in BuilderOutputs : buf' = [buf EXCEPT ![p] = out]
          /\ pc' = [pc EXCEPT ![p] = "build_open"]
          /\ UNCHANGED << call, changed, ca_path, fs >>
    /\ UNCHANGED << platform, release, now, dirExists, active, written,
                    lastBuilt >>
osx_collect(p) ==
    /\ pc[p] = "build"
    /\ platform = "darwin"
    /\ \/ /\ Finish(p, "failed", call[p])
          /\ UNCHANGED << ca_path >>
       \/ /\ \E out \in BuilderOutputs : buf' = [buf EXCEPT ![p] = out]
          /\ pc' = [pc EXCEPT ![p] = "build_open"]
          /\ UNCHANGED << call, changed, ca_path >>
    /\ UNCHANGED << platform, release, now, dirExists, fs, active, written,
                    lastBuilt >>

(***************************************************************************)
(* _win_create_ca_bundle, lines 321-437: returns at once on Windows XP,    *)
(* otherwise runs certutil and collects the certificates in memory.        *)
(***************************************************************************)
win_collect(p) ==
    /\ pc[p] = "build"
    /\ platform = "win32"
    /\ IF release = "XP"
       THEN /\ pc' = [pc EXCEPT ![p] = "user"]
            /\ ca_path' = [ca_path EXCEPT ![p] = system_ca_bundle_path]
            /\ lastBuilt' = now
            /\ UNCHANGED << call, changed, buf >>
       ELSE /\ \/ /\ Finish(p, "failed", call[p])
                  /\ UNCHANGED << ca_path >>
               \/ /\ \E out \in BuilderOutputs : buf' = [buf EXCEPT ![p] = out]
                  /\ pc' = [pc EXCEPT ![p] = "build_open"]
                  /\ UNCHANGED << call, changed, ca_path >>
            /\ UNCHANGED lastBuilt
    /\ UNCHANGED << platform, release, now, dirExists, fs, active, written >>

(***************************************************************************)
(* Lines 265 and 439: open_compat(destination, 'w') creates or truncates   *)
(* the system bundle.                                                      *)
(***************************************************************************)
builder_open(p) ==
    /\ pc[p] = "build_open"
    /\ fs' = [fs EXCEPT ![system_ca_bundle_path] = File(<<>>, now)]
    /\ pc' = [pc EXCEPT ![p] = "build_write"]
    /\ UNCHANGED << platform, release, now, dirExists, active, written, ca_path, buf,
                    call, changed, lastBuilt >>

(***************************************************************************)
(* Lines 266 and 440: f.write(u"\n".join(certs)); the builder returns and  *)
(* get_system_ca_bundle_path returns ca_path (line 152).                   *)
(***************************************************************************)
builder_write(p) ==
    /\ pc[p] = "build_write"
    /\ fs' = [fs EXCEPT ![system_ca_bundle_path] = File(buf[p], now)]
    /\ pc' = [pc EXCEPT ![p] = "user"]
    /\ ca_path' = [ca_path EXCEPT ![p] = system_ca_bundle_path]
    /\ buf' = [buf EXCEPT ![p] = <<>>]
    /\ lastBuilt' = now
    /\ UNCHANGED << platform, release, now, dirExists, active, written, call, changed >>

(***************************************************************************)
(* get_user_ca_bundle_path, lines 78-86: the user bundle is created empty  *)
(* when it does not exist.                                                 *)
(***************************************************************************)
\* Lines 80-84 with the file opened for writing whether it exists or not.
get_user_ca_bundle_pathMutant(files, t) ==
    [files EXCEPT ![user_ca_bundle_path] = File(<<>>, t)]

get_user_ca_bundle_path(files, t) ==
    IF files[user_ca_bundle_path].exists
    THEN files
    ELSE [files EXCEPT ![user_ca_bundle_path] = File(<<>>, t)]

\* Lines 40-46.  os.path.getmtime raises when the file does not exist.
MtimeRaises(files, sysPath) ==
    /\ files[merged_ca_bundle_path].exists
    /\ sysPath # "False"
    /\ ~files[sysPath].exists

\* The comparison of line 46 taken as "not older" instead of "newer".
regenerateMutant(files, sysPath) ==
    LET merged == files[merged_ca_bundle_path]
    IN \/ ~merged.exists
       \/ /\ sysPath # "False"
          /\ files[sysPath].mtime > merged.mtime
       \/ /\ files[user_ca_bundle_path].exists
          /\ files[user_ca_bundle_path].mtime >= merged.mtime

regenerate(files, sysPath) ==
    LET merged == files[merged_ca_bundle_path]
    IN \/ ~merged.exists
       \/ /\ sysPath # "False"
          /\ files[sysPath].mtime > merged.mtime
       \/ /\ files[user_ca_bundle_path].exists
          /\ files[user_ca_bundle_path].mtime > merged.mtime

(***************************************************************************)
(* get_ca_bundle_path, lines 37-48 and 64: the user bundle is ensured, the *)
(* decision to regenerate is taken, and without regeneration the merged    *)
(* path is returned.                                                       *)
(***************************************************************************)
decide(p) ==
    /\ pc[p] = "user"
    /\ LET files == get_user_ca_bundle_path(fs, now)
           c1 == call[p]
       IN /\ fs' = files
          /\ IF MtimeRaises(files, ca_path[p])
             THEN Finish(p, "failed", c1)
             ELSE IF regenerate(files, ca_path[p])
                  THEN /\ pc' = [pc EXCEPT ![p] = "merge_open"]
                       /\ call' = [call EXCEPT ![p] = c1]
                       /\ UNCHANGED << changed, buf >>
                  ELSE Finish(p, "returned", c1)
    /\ UNCHANGED << platform, release, now, dirExists, active, written, ca_path,
                    lastBuilt >>

\* Line 49: open(merged_ca_bundle_path, 'wb') creates or truncates the file;
\* the handle starts at position 0.
merge_open(p) ==
    /\ pc[p] = "merge_open"
    /\ fs' = [fs EXCEPT ![merged_ca_bundle_path] = File(<<>>, now)]
    /\ written' = [written EXCEPT ![p] = <<>>]
    /\ pc' = [pc EXCEPT ![p] = "merge_system"]
    /\ UNCHANGED << platform, release, now, dirExists, active, ca_path, buf,
                    call, changed, lastBuilt >>

\* What fills the gap when a handle writes beyond the end of the file.
NUL == "NUL"

\* write() of text through a handle at position pos: the text replaces what
\* the file holds from pos on, a gap before pos is filled with NUL.
WriteAt(content, pos, text) ==
    IF text = <<>> THEN content
    ELSE LET size == IF Len(content) > pos + Len(text)
                     THEN Len(content) ELSE pos + Len(text)
         IN [i \in 1..size |->
                IF i > pos /\ i <= pos + Len(text) THEN text[i - pos]
                ELSE IF i <= Len(content) THEN content[i]
                ELSE NUL]

\* A write to the open merged file through a handle at position pos.
WriteMerged(files, pos, text, t) ==
    [files EXCEPT ![merged_ca_bundle_path] =
        File(WriteAt(files[merged_ca_bundle_path].content, pos, text), t)]

\* Lines 50-55: the system bundle, when a path was returned, is read,
\* stripped and written; open_compat raises when the file does not exist.
merge_system(p) ==
    /\ pc[p] = "merge_system"
    /\ IF ca_path[p] # "False" /\ ~fs[ca_path[p]].exists
       THEN /\ Finish(p, "failed", call[p])
            /\ UNCHANGED << fs, written >>
       ELSE LET text == IF ca_path[p] = "False" THEN <<>>
                        ELSE WithNewline(strip(fs[ca_path[p]].content))
            IN /\ fs' = IF ca_path[p] = "False"
                        THEN fs
                        ELSE WriteMerged(fs, Len(written[p]), text, now)
               /\ written' = [written EXCEPT ![p] = @ \o text]
               /\ pc' = [pc EXCEPT ![p] = "merge_user"]
               /\ UNCHANGED << call, changed, buf >>
    /\ UNCHANGED << platform, release, now, dirExists, active, ca_path,
                    lastBuilt >>

\* Lines 56-64: the user bundle is read, stripped and written; the merged
\* file is closed and its path returned.
merge_user(p) ==
    /\ pc[p] = "merge_user"
    /\ LET text == WithNewline(strip(fs[user_ca_bundle_path].content))
       IN /\ fs' = WriteMerged(fs, Len(written[p]), text, now)
          /\ written' = [written EXCEPT ![p] = @ \o text]
    /\ Finish(p, "returned", call[p])
    /\ UNCHANGED << platform, release, now, dirExists, active, ca_path,
                    lastBuilt >>

(***************************************************************************)
(* The environment, between requests.                                      *)
(***************************************************************************)
Tick ==
    /\ Idle
    /\ \E t \in Times : t > now /\ now' = t
    /\ UNCHANGED << platform, release, dirExists, fs, active, written, pc, ca_path,
                    buf, call, changed, lastBuilt >>

\* The user saves the user bundle.
EditUser ==
    /\ Idle
    /\ dirExists
    /\ \E c \in UserContents :
          fs' = [fs EXCEPT ![user_ca_bundle_path] = File(c, now)]
    /\ changed' = TRUE
    /\ UNCHANGED << platform, release, now, dirExists, active, written, pc, ca_path,
                    buf, call, lastBuilt >>

\* The distribution installs, updates or removes a bundle at a probe path.
ProbeChange ==
    /\ Idle
    /\ platform = "linux"
    /\ \E q \in DistroPaths :
          \/ /\ fs[q].exists
             /\ fs' = [fs EXCEPT ![q] = Absent]
          \/ \E c \in ProbeContents(q) : fs' = [fs EXCEPT ![q] = File(c, now)]
    /\ changed' = TRUE
    /\ UNCHANGED << platform, release, now, dirExists, active, written, pc, ca_path,
                    buf, call, lastBuilt >>

InitFiles ==
    /\ platform \in {"darwin", "win32", "linux"}
    /\ release \in (IF platform = "win32" THEN {"XP", "other"} ELSE {"other"})
    /\ now = 0
    /\ dirExists \in BOOLEAN
    /\ fs = [f \in AllFiles |-> Absent]
    /\ active = {1}
    /\ pc = [p \in Procs |-> "idle"]
    /\ ca_path = [p \in Procs |-> "False"]
    /\ buf = [p \in Procs |-> <<>>]
    /\ call = [p \in Procs |-> NoCall]
    /\ changed = FALSE
    /\ lastBuilt = 0 - 1
    /\ written = [p \in Procs |-> <<>>]

NextFiles ==
    \/ \E p \in active : get_system_ca_bundle_path(p)
    \/ \E p \in active : osx_collect(p)
    \/ \E p \in active : win_collect(p)
    \/ \E p \in active : builder_open(p)
    \/ \E p \in active : builder_write(p)
    \/ \E p \in active : decide(p)
    \/ \E p \in active : merge_open(p)
    \/ \E p \in active : merge_system(p)
    \/ \E p \in active : merge_user(p)
    \/ Tick
    \/ EditUser
    \/ ProbeChange

(***************************************************************************)
(* The macOS builder in detail: _osx_get_distrusted_certs,                 *)
(* openssl_get_cert_name and _osx_create_ca_bundle on the outputs of the   *)
(* `security` and `openssl` commands.  A line of output is a token; a text *)
(* is a sequence of tokens in which "\n" separates the lines.              *)
(***************************************************************************)
None == "None"

\* u"\n".join(items), for items that are texts
RECURSIVE Join(_)
Join(items) ==
    IF items = <<>> THEN <<>>
    ELSE IF Len(items) = 1 THEN items[1]
    ELSE items[1] \o <<"\n">> \o Join(Tail(items))

\* u"\n".join(lines), for lines that are tokens
JoinLines(lines) == Join([i \in 1..Len(lines) |-> <<lines[i]>>])

\* x in list
InList(x, list) == \E i \in 1..Len(list) : list[i] = x

Elements(list) == { list[i] : i \in 1..Len(list) }

\* The names of the certificates of the model.
CertNames == {"n1", "n2"}

\* The lines `security dump-trust-settings -d` can print, by the pattern of
\* lines 293-312 they match: a blank line, "Cert N: <name>", "Trust Setting
\* N:", "Policy OID : SSL", "Result Type : kSecTrustSettingsResultDeny", and
\* a line that matches none of them.
TrustLines ==
    { <<"blank">>, <<"trust_setting">>, <<"policy_ssl">>, <<"deny">>, <<"other">> }
    \cup { <<"cert", n>> : n \in CertNames }

\* Every sequence over S of at most n elements.
SeqsUpTo(S, n) == UNION { [1..k -> S] : k \in 0..n }

\* Lines 292-316 without the reset of lines 303-305.
TrustStepMutant(st, line) ==
    IF line = <<"blank">> THEN st
    ELSE IF line[1] = "cert" THEN [st EXCEPT !.cert_name = line[2]]
    ELSE IF line = <<"policy_ssl">> THEN [st EXCEPT !.ssl_policy = TRUE]
    ELSE IF /\ st.ssl_policy
            /\ line = <<"deny">>
            /\ ~InList(st.cert_name, st.distrusted_certs)
         THEN [st EXCEPT !.distrusted_certs = Append(@, st.cert_name)]
         ELSE st

\* Lines 292-316, one line of the trust settings.
TrustStep(st, line) ==
    IF line = <<"blank">> THEN st
    ELSE IF line[1] = "cert" THEN [st EXCEPT !.cert_name = line[2]]
    ELSE IF line = <<"trust_setting">> THEN [st EXCEPT !.ssl_policy = FALSE]
    ELSE IF line = <<"policy_ssl">> THEN [st EXCEPT !.ssl_policy = TRUE]
    ELSE IF /\ st.ssl_policy
            /\ line = <<"deny">>
            /\ ~InList(st.cert_name, st.distrusted_certs)
         THEN [st EXCEPT !.distrusted_certs = Append(@, st.cert_name)]
         ELSE st

RECURSIVE TrustScan(_, _)
TrustScan(st, lines) ==
    IF lines = <<>> THEN st ELSE TrustScan(TrustStep(st, Head(lines)), Tail(lines))

\* Lines 289-318
osx_get_distrusted_certs(result) ==
    TrustScan([distrusted_certs |-> <<>>, cert_name |-> None,
               ssl_policy |-> FALSE], result).distrusted_certs

\* The lines `security export` can print.
BEGIN == "-----BEGIN CERTIFICATE-----"
END == "-----END CERTIFICATE-----"
Bodies == {"a", "b", "z"}

\* A PEM block with the given body.
Block(body) == << BEGIN, body, END >>

\* The pieces an exported stream is made of: a PEM block, a line outside any
\* block, a BEGIN line or an END line on its own.
Chunks == { Block(b) : b \in Bodies } \cup { <<"junk">>, <<BEGIN>>, <<END>> }

RECURSIVE Flatten(_)
Flatten(chunks) ==
    IF chunks = <<>> THEN <<>> ELSE Head(chunks) \o Flatten(Tail(chunks))

\* What `openssl x509 -noout -subject -nameopt sep_multiline,lname,utf8`
\* prints for a certificate: "a" has an organizational unit and a common
\* name, "b" an organizational unit only, "z" neither.
SubjectOf(body) ==
    IF body = "a" THEN << <<"organizationalUnitName", "n2">>,
                          <<"commonName", "n1">> >>
    ELSE IF body = "b" THEN << <<"organizationName", "o">>,
                               <<"organizationalUnitName", "n2">> >>
    ELSE << <<"organizationName", "o">> >>

\* The subject of a certificate text: that of its first body line.
RECURSIVE SubjectOfCert(_)
SubjectOfCert(cert) ==
    IF cert = <<>> THEN <<>>
    ELSE IF Head(cert) \in Bodies THEN SubjectOf(Head(cert))
    ELSE SubjectOfCert(Tail(cert))

\* Lines 198-211: the first commonName ends the scan, the first
\* organizationalUnitName before it is remembered.
RECURSIVE SubjectScan(_, _)
SubjectScan(lines, first_ou) ==
    IF lines = <<>> THEN [cn |-> None, first_ou |-> first_ou]
    ELSE IF Head(lines)[1] = "commonName"
         THEN [cn |-> Head(lines)[2], first_ou |-> first_ou]
    ELSE IF first_ou = None /\ Head(lines)[1] = "organizationalUnitName"
         THEN SubjectScan(Tail(lines), Head(lines)[2])
    ELSE SubjectScan(Tail(lines), first_ou)

\* Lines 189-214: cn or first_ou
openssl_get_cert_name(cert) ==
    LET r == SubjectScan(SubjectOfCert(cert), None)
    IN IF r.cn # None THEN r.cn ELSE r.first_ou

\* Lines 255-261 with the name compared to the first distrusted name only.
SkippedMutant(cert, distrusted_certs) ==
    /\ distrusted_certs # <<>>
    /\ openssl_get_cert_name(cert) = distrusted_certs[1]

\* Lines 255-261: is the certificate skipped
Skipped(cert, distrusted_certs) ==
    /\ distrusted_certs # <<>>
    /\ InList(openssl_get_cert_name(cert), distrusted_certs)

\* Lines 243-263 with every line accumulated, inside a block or not.
ExportStepMutant(st, line, distrusted_certs) ==
    LET in_block == st.in_block \/ line = BEGIN
        temp == Append(st.temp, line)
    IN IF line = END
       THEN LET cert == JoinLines(temp)
            IN [in_block |-> FALSE, temp |-> <<>>,
                certs |-> IF Skipped(cert, distrusted_certs)
                          THEN st.certs
                          ELSE Append(st.certs, cert)]
       ELSE [in_block |-> in_block, temp |-> temp, certs |-> st.certs]

\* Lines 243-263, one line of the exported stream.
ExportStep(st, line, distrusted_certs) ==
    LET in_block == st.in_block \/ line = BEGIN
        temp == IF in_block THEN Append(st.temp, line) ELSE st.temp
    IN IF line = END
       THEN LET cert == JoinLines(temp)
            IN [in_block |-> FALSE, temp |-> <<>>,
                certs |-> IF Skipped(cert, distrusted_certs)
                          THEN st.certs
                          ELSE Append(st.certs, cert)]
       ELSE [in_block |-> in_block, temp |-> temp, certs |-> st.certs]

RECURSIVE ExportScan(_, _, _)
ExportScan(st, lines, distrusted_certs) ==
    IF lines = <<>> THEN st
    ELSE ExportScan(ExportStep(st, Head(lines), distrusted_certs),
                    Tail(lines), distrusted_certs)

\* Lines 239-263: the certificates collected from the exported stream
CollectCerts(result, distrusted_certs) ==
    ExportScan([in_block |-> FALSE, temp |-> <<>>, certs |-> <<>>],
               result, distrusted_certs).certs

\* No run of a builder is under way.
OsxOff == [at |-> "off"]
WinOff == [at |-> "off"]

\* Line 231: `security dump-trust-settings -d` has printed result.
OsxStart(result) ==
    [at |-> "trust", result |-> result, distrusted_certs |-> <<>>,
     chunks |-> <<>>, certs |-> <<>>, written |-> FALSE, destination |-> <<>>]

\* Lines 286-318: the distrusted names are parsed from the output.
osx_trust ==
    /\ osx.at = "trust"
    /\ osx' = [osx EXCEPT !.at = "export", !.result = <<>>,
                  !.distrusted_certs = osx_get_distrusted_certs(osx.result)]
    /\ UNCHANGED << fsVars, win >>

\* Lines 234-263: `security export` prints a stream, or fails; the stream
\* is split and the distrusted certificates are dropped.
osx_export ==
    /\ osx.at = "export"
    /\ \/ osx' = [osx EXCEPT !.at = "failed"]
       \/ \E chunks \in SeqsUpTo(Chunks, MaxChunks) :
             osx' = [osx EXCEPT !.at = "write", !.chunks = chunks,
                        !.certs = CollectCerts(Flatten(chunks),
                                               osx.distrusted_certs)]
    /\ UNCHANGED << fsVars, win >>

\* Lines 265-266: the destination is opened and the certificates written.
osx_write ==
    /\ osx.at = "write"
    /\ osx' = [osx EXCEPT !.at = "done", !.written = TRUE,
                  !.destination = Join(osx.certs)]
    /\ UNCHANGED << fsVars, win >>

InitOsx ==
    /\ InitFiles
    /\ platform = "darwin"
    /\ dirExists
    /\ win = WinOff
    /\ \E result \in SeqsUpTo(TrustLines, MaxTrustLines) : osx = OsxStart(result)

NextOsx == osx_trust \/ osx_export \/ osx_write

SpecOsx == InitOsx /\ [][NextOsx]_vars

(***************************************************************************)
(* The Windows builder in detail: the scan of a `certutil -store <store>`  *)
(* transcript, lines 338-416.  A line is a tuple: its kind, by the pattern *)
(* it matches, and the value the pattern captures.                         *)
(***************************************************************************)
\* One attribute of an Issuer or Subject value, as re.split leaves it.
Part(tag, value) == << tag, value >>

\* Lines 380-383: the last CN= part
RECURSIVE LastCN(_, _)
LastCN(parts, issuer) ==
    IF parts = <<>> THEN issuer
    ELSE LastCN(Tail(parts),
                IF Head(parts)[1] = "CN" THEN Head(parts)[2] ELSE issuer)

\* Lines 401-404 and 406-409: the first part with the tag
RECURSIVE FirstWith(_, _)
FirstWith(parts, tag) ==
    IF parts = <<>> THEN None
    ELSE IF Head(parts)[1] = tag THEN Head(parts)[2]
    ELSE FirstWith(Tail(parts), tag)

\* Lines 400-409: the first CN=, else the first OU=, else what it was
SubjectName(parts, subject) ==
    LET cn == FirstWith(parts, "CN")
        s1 == IF cn # None THEN cn ELSE subject
    IN IF s1 = None /\ FirstWith(parts, "OU") # None
       THEN FirstWith(parts, "OU")
       ELSE s1

\* Lines 338-345 and 353-359
NoEntry(cert_hashes) ==
    [entry |-> None, serial_number |-> None, issuer |-> None, subject |-> None,
     not_before |-> None, not_after |-> None, expired |-> FALSE,
     cert_hash |-> None, cert_hashes |-> cert_hashes]

\* Lines 349-416, one line of the transcript read at time t.
StoreStep(st, line, t) ==
    IF line[1] = "delimiter" THEN [NoEntry(st.cert_hashes) EXCEPT !.entry = line[2]]
    ELSE IF st.expired THEN st
    ELSE IF line[1] = "completed" THEN st
    ELSE IF st.entry = None THEN st
    ELSE IF line[1] = "serial" THEN [st EXCEPT !.serial_number = line[2]]
    ELSE IF line[1] = "issuer" THEN [st EXCEPT !.issuer = LastCN(line[2], @)]
    ELSE IF line[1] = "not_before" THEN [st EXCEPT !.not_before = line[2]]
    ELSE IF line[1] = "not_after"
         THEN [st EXCEPT !.not_after = line[2], !.expired = (line[2] < t)]
    ELSE IF line[1] = "subject" THEN [st EXCEPT !.subject = SubjectName(line[2], @)]
    ELSE IF line[1] = "hash"
         THEN [st EXCEPT !.cert_hash = line[2],
                         !.cert_hashes = Append(@, line[2])]
    ELSE st

RECURSIVE StoreScan(_, _, _)
StoreScan(st, lines, t) ==
    IF lines = <<>> THEN st
    ELSE StoreScan(StoreStep(st, Head(lines), t), Tail(lines), t)

\* Lines 338-416: the hashes to export from one store's transcript
CertHashes(result, t) == StoreScan(NoEntry(<<>>), result, t).cert_hashes

\* The kinds of line in the transcripts of the model: an entry's delimiter,
\* a NotAfter in the past or in the future, a Cert Hash, a Subject, and the
\* closing "CertUtil: -store command completed successfully." line.
StoreLineKinds ==
    {"delimiter", "expired", "valid", "hash", "subject", "completed"}

\* The transcript with the given kinds of line, read at time t: line i is
\* the delimiter of entry i, or names the hash i.
Transcript(kinds, t) ==
    [i \in 1..Len(kinds) |->
        CASE kinds[i] = "delimiter" -> << "delimiter", ToString(i) >>
          [] kinds[i] = "expired"   -> << "not_after", t - 1 >>
          [] kinds[i] = "valid"     -> << "not_after", t + 1 >>
          [] kinds[i] = "hash"      -> << "hash", ToString(i) >>
          [] kinds[i] = "subject"   -> << "subject", << Part("OU", "u"), Part("CN", "c") >> >>
          [] OTHER                  -> << "completed" >>]

\* Line 336: `certutil -store root` has printed result.
WinStart(result) ==
    [at |-> "store", store |-> "root", result |-> result, cert_hashes |-> <<>>]

\* Lines 324-325: on Windows XP the builder returns at once.
win_return ==
    /\ win.at = "store"
    /\ release = "XP"
    /\ win' = [win EXCEPT !.at = "returned"]
    /\ UNCHANGED << fsVars, osx >>

\* Lines 338-416: the transcript of the store is scanned.
win_scan ==
    /\ win.at = "store"
    /\ release # "XP"
    /\ win' = [win EXCEPT !.at = "export",
                  !.cert_hashes = CertHashes(win.result, now)]
    /\ UNCHANGED << fsVars, osx >>

InitWin ==
    /\ InitFiles
    /\ platform = "win32"
    /\ dirExists
    /\ osx = OsxOff
    /\ \E kinds \in SeqsUpTo(StoreLineKinds, MaxStoreLines) :
          win = WinStart(Transcript(kinds, now))

NextWin == win_return \/ win_scan

SpecWin == InitWin /\ [][NextWin]_vars

(***************************************************************************)
(* Two independent processes that run get_ca_bundle_path at the same time  *)
(* on a Linux machine whose distribution may keep a bundle at a probe      *)
(* path.  Each process has its own handle of the merged file, with its own *)
(* position; the user may save the user bundle while requests run.         *)
(***************************************************************************)
\* The user saves the user bundle while a request is under way.
EditUserDuring ==
    /\ ~Idle
    /\ dirExists
    /\ \E c \in UserContents :
          fs' = [fs EXCEPT ![user_ca_bundle_path] = File(c, now)]
    /\ changed' = TRUE
    /\ UNCHANGED << platform, release, now, dirExists, active, written, pc,
                    ca_path, buf, call, lastBuilt >>

InitConcurrent ==
    /\ platform = "linux"
    /\ release = "other"
    /\ now = 0
    /\ dirExists = TRUE
    /\ \E q \in DistroPaths : \E f \in {Absent} \cup { File(c, 0) : c \in ProbeContents(q) } :
          fs = [[g \in AllFiles |-> Absent] EXCEPT ![q] = f]
    /\ active = Procs
    /\ pc = [p \in Procs |-> "idle"]
    /\ ca_path = [p \in Procs |-> "False"]
    /\ buf = [p \in Procs |-> <<>>]
    /\ call = [p \in Procs |-> NoCall]
    /\ changed = FALSE
    /\ lastBuilt = 0 - 1
    /\ written = [p \in Procs |-> <<>>]
    /\ osx = OsxOff
    /\ win = WinOff

NextConcurrent ==
    /\ \/ \E p \in active : get_system_ca_bundle_path(p)
       \/ \E p \in active : decide(p)
       \/ \E p \in active : merge_open(p)
       \/ \E p \in active : merge_system(p)
       \/ \E p \in active : merge_user(p)
       \/ Tick
       \/ EditUser
       \/ EditUserDuring
    /\ UNCHANGED << osx, win >>

SpecConcurrent == InitConcurrent /\ [][NextConcurrent]_vars

(***************************************************************************)
(* get_system_ca_bundle_path called on Linux, lines 104-107 and 134-152,   *)
(* while files come and go at the six probe paths.                         *)
(***************************************************************************)
\* A file appears at a probe path, empty or with a bundle, or is removed.
ProbeWrite ==
    /\ \E q \in ProbePaths :
          \E f \in {Absent, File(<<>>, now)} \cup { File(c, now) : c \in ProbeContents(q) } :
             /\ f # fs[q]
             /\ fs' = [fs EXCEPT ![q] = f]
    /\ UNCHANGED << platform, release, now, dirExists, active, written, pc,
                    ca_path, buf, call, changed, lastBuilt, osx, win >>

\* Lines 104-107 and 134-152: ca_path is False or the first probe path that
\* qualifies, and is returned.
linux_locate(p) ==
    /\ platform \notin {"win32", "darwin"}
    /\ ca_path' = [ca_path EXCEPT ![p] = LinuxBundleLocator(fs)]
    /\ call' = [call EXCEPT ![p] = [NoCall EXCEPT !.outcome = "returned"]]
    /\ UNCHANGED << platform, release, now, dirExists, fs, active, written, pc,
                    buf, changed, lastBuilt, osx, win >>

InitLinux ==
    /\ InitFiles
    /\ platform = "linux"
    /\ osx = OsxOff
    /\ win = WinOff

NextLinux == ProbeWrite \/ \E p \in active : linux_locate(p)

SpecLinux == InitLinux /\ [][NextLinux]_vars

(***************************************************************************)
(* The Windows builder from store to store, lines 331-440: the scan of     *)
(* each store's transcript, the export loop with its two temporary files   *)
(* in %TMP%, and the write of the destination.  A command fails with       *)
(* CommandFailure or returns; a later request invokes the builder again.   *)
(***************************************************************************)
\* Line 333
stores == << "root", "authroot" >>

\* The kinds of line in the transcripts of these runs.
ExportLineKinds == {"delimiter", "hash"}

\* What `certutil -exportpfx <store> <hash> export.pfx` writes.
Pfx(store, cert_hash) == << store, cert_hash >>

\* What `certutil -encode export.pfx export.pem` writes for a PFX file.
Encode(pfx) == << BEGIN, "\n", pfx[1], pfx[2], "\n", END, "\n" >>

\* Lines 331-333: a run of the builder begins, with whatever an earlier run
\* has left at the path of export.pfx.
ExportStart(pfx) ==
    [at |-> "store", store |-> 1, result |-> <<>>, cert_hashes |-> <<>>,
     i |-> 0, certs |-> <<>>, pfx_file |-> pfx, pem_file |-> None,
     exported |-> <<>>, n |-> 0, destination |-> None]

\* Lines 420 and 334: the next hash of the store, else the next store, else
\* the write of the destination.
NextHash(w) ==
    IF w.i < Len(w.cert_hashes)
    THEN [w EXCEPT !.at = "exportpfx", !.i = w.i + 1, !.n = w.n + 1]
    ELSE IF w.store < Len(stores)
         THEN [w EXCEPT !.at = "store", !.store = w.store + 1,
                        !.cert_hashes = <<>>, !.i = 0]
         ELSE [w EXCEPT !.at = "write", !.cert_hashes = <<>>, !.i = 0]

\* Lines 335-416: `certutil -store <store>` fails, or prints a transcript,
\* which is scanned for the hashes to export.
win_store ==
    /\ win.at = "store"
    /\ \/ win' = [win EXCEPT !.at = "failed"]
       \/ \E kinds \in SeqsUpTo(ExportLineKinds, MaxExportLines) :
             win' = NextHash([win EXCEPT
                        !.cert_hashes = CertHashes(Transcript(kinds, now), now)])
    /\ UNCHANGED << fsVars, osx >>

\* Lines 421-426: `certutil -exportpfx` fails, or returns having written
\* export.pfx or not; the hash is skipped when no file is at that path.
win_exportpfx ==
    /\ win.at = "exportpfx"
    /\ \/ win' = [win EXCEPT !.at = "failed"]
       \/ win' = [win EXCEPT !.at = "encode",
                      !.pfx_file = Pfx(stores[win.store], win.cert_hashes[win.i]),
                      !.exported = Append(@, Pfx(stores[win.store],
                                                win.cert_hashes[win.i]))]
       \/ win' = IF win.pfx_file = None
                 THEN NextHash(win)
                 ELSE [win EXCEPT !.at = "encode"]
    /\ UNCHANGED << fsVars, osx >>

\* Lines 428-437 with the two os.unlink calls left out.
win_encodeMutant ==
    /\ win.at = "encode"
    /\ \/ win' = [win EXCEPT !.at = "failed"]
       \/ LET pem == Encode(win.pfx_file)
          IN win' = NextHash([win EXCEPT !.pem_file = pem,
                                        !.certs = Append(@, strip(pem))])
    /\ UNCHANGED << fsVars, osx >>

\* Lines 428-437: `certutil -encode` fails, or writes export.pem; the file is
\* read, both temporary files are deleted and the stripped text collected.
win_encode ==
    /\ win.at = "encode"
    /\ \/ win' = [win EXCEPT !.at = "failed"]
       \/ LET pem == Encode(win.pfx_file)
          IN win' = NextHash([win EXCEPT !.pfx_file = None, !.pem_file = None,
                                        !.certs = Append(@, strip(pem))])
    /\ UNCHANGED << fsVars, osx >>

\* Lines 439-440
win_write ==
    /\ win.at = "write"
    /\ win' = [win EXCEPT !.at = "done", !.destination = Join(win.certs)]
    /\ UNCHANGED << fsVars, osx >>

\* Lines 117-125: a later request invokes the builder again, after a failed
\* run or when the bundle has aged.
win_again ==
    /\ win.at \in {"failed", "done"}
    /\ win' = ExportStart(win.pfx_file)
    /\ UNCHANGED << fsVars, osx >>

InitExport ==
    /\ InitFiles
    /\ platform = "win32"
    /\ release = "other"
    /\ dirExists
    /\ osx = OsxOff
    /\ win = ExportStart(None)

NextExport ==
    win_store \/ win_exportpfx \/ win_encode \/ win_write \/ win_again

SpecExport == InitExport /\ [][NextExport]_vars

Init == InitFiles /\ osx = OsxOff /\ win = WinOff

Next == NextFiles /\ UNCHANGED << osx, win >>

Spec == Init /\ [][Next]_vars


(***************************************************************************)
(* Properties of the merged bundle.                                        *)
(***************************************************************************)
\* The path of the current system bundle ("False": there is none).
CurrentSystem ==
    IF platform = "linux" THEN LinuxBundleLocator(fs) ELSE system_ca_bundle_path

\* strip(system) and a newline if not empty, then the same for the user bundle.
UnionOf(files, sysPath) ==
    (IF sysPath = "False" THEN <<>> ELSE WithNewline(strip(files[sysPath].content)))
    \o WithNewline(strip(files[user_ca_bundle_path].content))

\* A request of p has returned and nothing has changed since.
JustReturned(p) == pc[p] = "idle" /\ call[p].outcome = "returned" /\ ~changed

\* C1: after every get_ca_bundle_path call that returns, the merged file's
\* content is the stripped current system bundle and a newline if not empty
\* (left out when no system bundle path is returned), then the stripped
\* current user bundle and a newline if not empty.
C1_MergedIsUnion ==
    \A p \in active :
        JustReturned(p) =>
            fs[merged_ca_bundle_path].content = UnionOf(fs, CurrentSystem)

\* The condition of C2 on the files as they are when the decision is taken.
C2_Condition(files, sysPath) ==
    \/ ~files[merged_ca_bundle_path].exists
    \/ /\ sysPath # "False"
       /\ files[sysPath].mtime > files[merged_ca_bundle_path].mtime
    \/ files[user_ca_bundle_path].mtime > files[merged_ca_bundle_path].mtime

\* C2: get_ca_bundle_path rewrites the merged file if and only if the merged
\* file is missing, or a system bundle path is returned and the system bundle
\* is newer than the merged file, or the user bundle is newer than the merged
\* file; and a rewrite ends with the user bundle's content.
C2_RewriteIff ==
    [][\A p \in active :
          /\ (pc[p] = "user" /\ pc'[p] # "user") =>
                (pc'[p] = "merge_open" <=> C2_Condition(fs', ca_path[p]))
          /\ (pc[p] = "merge_open" /\ pc'[p] # "merge_open") =>
                fs'[merged_ca_bundle_path] # fs[merged_ca_bundle_path]
                    \/ fs'[merged_ca_bundle_path] = File(<<>>, now)
          /\ (pc[p] = "merge_user" /\ pc'[p] = "idle") =>
                LET user == WithNewline(strip(fs[user_ca_bundle_path].content))
                    text == fs'[merged_ca_bundle_path].content
                IN /\ Len(text) >= Len(user)
                   /\ SubSeq(text, Len(text) - Len(user) + 1, Len(text)) = user
      ]_vars

\* C3 as stated: a request that follows a returned request, with no change
\* to the system or user bundle in between, does not write the merged file.
C3_SecondCallNoWrite ==
    [][\A p \in active :
          (pc[p] # "idle" /\ call[p].consecutive) =>
              fs'[merged_ca_bundle_path] = fs[merged_ca_bundle_path]
      ]_vars

\* C3 as amended: the same, for a second request that does not find the
\* system bundle older than a week (and so invokes no builder).
C3_SecondCallNoWriteUnlessStale ==
    [][\A p \in active :
          (pc[p] # "idle" /\ call[p].consecutive /\ ~call[p].invoked) =>
              fs'[merged_ca_bundle_path] = fs[merged_ca_bundle_path]
      ]_vars

\* A second request, after an unchanged interval, has reached the decision.
C3_Witness ==
    \E p \in active :
        /\ call[p].consecutive /\ ~call[p].invoked
        /\ pc[p] = "idle" /\ call[p].outcome = "returned"
        /\ fs[merged_ca_bundle_path].content # <<>>
        /\ now > fs[merged_ca_bundle_path].mtime


(***************************************************************************)
(* Properties of the system bundle cache.                                  *)
(***************************************************************************)
\* The file does not exist, or its age at time t exceeds 604800 seconds.
MissingOrAged(f, t) == ~f.exists \/ t - f.mtime > WeekSeconds

NotWithinAWeek ==
    \A p \in active :
        pc[p] = "build" => (lastBuilt < 0 \/ now - lastBuilt > WeekSeconds)

EndOfLife == platform = "win32" /\ release = "XP"

C8_XPRequestReturns ==
    EndOfLife =>
        \A p \in active :
            /\ call[p].outcome # "failed"
            /\ JustReturned(p) =>
                  fs[merged_ca_bundle_path].content =
                      WithNewline(strip(fs[user_ca_bundle_path].content))

\* C10: a destination file changes only to its complete new content: the
\* merged bundle to the union of the bundles, the system bundle to the text
\* its builder has collected.
C10_SingleTerminalWrite ==
    [][/\ fs'[merged_ca_bundle_path] # fs[merged_ca_bundle_path] =>
             \E p \in active :
                 fs'[merged_ca_bundle_path].content = UnionOf(fs', ca_path[p])
       /\ fs'[system_ca_bundle_path] # fs[system_ca_bundle_path] =>
             \E p \in active :
                 fs'[system_ca_bundle_path].content = buf[p]
      ]_vars


(***************************************************************************)
(* Properties of the macOS builder.                                        *)
(***************************************************************************)
\* The certificates of the exported stream, before any is dropped.
Candidates == Elements(CollectCerts(Flatten(osx.chunks), <<>>))

\* Every order of the chunks of the stream.
Orders(chunks) ==
    { [i \in 1..Len(chunks) |-> chunks[f[i]]] :
        f \in { g \in [1..Len(chunks) -> 1..Len(chunks)] :
                  \A i, j \in 1..Len(chunks) : g[i] = g[j] => i = j } }

\* The stream is made of whole PEM blocks and lines between them.
WellFormed(chunks) ==
    \A i \in 1..Len(chunks) : chunks[i] # <<BEGIN>> /\ chunks[i] # <<END>>

\* C4: the certificates _osx_create_ca_bundle writes are the candidates of
\* the exported stream less those whose resolved name is in the distrust
\* set of the run, in whatever order the candidates come.
C4_SetDifference ==
    osx.at = "done" =>
        LET kept == { c \in Candidates :
                        openssl_get_cert_name(c) \notin Elements(osx.distrusted_certs) }
        IN /\ Elements(osx.certs) = kept
           /\ osx.destination = Join(osx.certs)
           /\ WellFormed(osx.chunks) =>
                 \A other \in Orders(osx.chunks) :
                     Elements(CollectCerts(Flatten(other), osx.distrusted_certs)) = kept

\* A run with two names distrusted has written a stream of whole blocks, of
\* which it dropped one certificate and kept another.
C4_Witness ==
    /\ osx.at = "done"
    /\ Elements(osx.distrusted_certs) = CertNames
    /\ WellFormed(osx.chunks)
    /\ osx.certs # <<>>
    /\ Elements(osx.certs) # Candidates

\* The text runs from a BEGIN CERTIFICATE line to an END CERTIFICATE line.
IsPem(c) == Len(c) >= 3 /\ c[1] = BEGIN /\ c[Len(c)] = END

\* C5: a certificate whose name cannot be resolved is never dropped by the
\* distrust filter, whatever `security dump-trust-settings -d` printed.
C5_UnnamedNeverDropped ==
    osx.at = "done" =>
        \A c \in Candidates :
            (IsPem(c) /\ openssl_get_cert_name(c) = None) =>
                c \in Elements(osx.certs)

(***************************************************************************)
(* Properties of the Windows builder.                                      *)
(***************************************************************************)
\* The lines of entry i of the transcript: from its delimiter to the next.
EntryLines(result, i) ==
    LET later == { j \in (i + 1)..Len(result) : result[j][1] = "delimiter" }
        last == IF later = {} THEN Len(result)
                ELSE (CHOOSE j \in later : \A k \in later : j <= k) - 1
    IN SubSeq(result, i + 1, last)

\* The hashes of the entries whose NotAfter is earlier than t.
ExpiredHashes(result, t) ==
    UNION { { l[2] : l \in { m \in Elements(EntryLines(result, i)) : m[1] = "hash" } } :
              i \in { j \in 1..Len(result) :
                        /\ result[j][1] = "delimiter"
                        /\ \E m \in Elements(EntryLines(result, j)) :
                              m[1] = "not_after" /\ m[2] < t } }

\* C9: no hash of an entry whose NotAfter is earlier than the current time
\* is put on the list of hashes to export, whatever the order of the lines
\* of the entry.
C9_NoExpiredHash ==
    win.at = "export" =>
        Elements(win.cert_hashes) \cap ExpiredHashes(win.result, now) = {}

C12_LastWriterWins ==
    (Idle /\ fs[merged_ca_bundle_path].exists) =>
        \E p \in active : fs[merged_ca_bundle_path].content = written[p]

(***************************************************************************)
(* Properties of the text of the merged bundle.                            *)
(***************************************************************************)
\* The text without its leading and trailing whitespace: what lies between
\* its first and its last token that is not whitespace.
Trimmed(s) ==
    LET solid == { i \in 1..Len(s) : ~IsSpace(s[i]) }
    IN IF solid = {} THEN <<>>
       ELSE SubSeq(s, CHOOSE i \in solid : \A j \in solid : i <= j,
                      CHOOSE i \in solid : \A j \in solid : i >= j)

\* The text followed by one newline, nothing when the text is empty.
Terminated(s) == IF s = <<>> THEN <<>> ELSE s \o <<"\n">>

\* C13: when get_ca_bundle_path has rewritten the merged file, its content
\* is the trimmed system bundle and one newline if that text is not empty
\* (nothing when no system bundle path was returned), then the trimmed user
\* bundle and one newline if not empty; with no or an empty system bundle
\* it is the trimmed user bundle and one newline.
C13_ExactContent ==
    [][\A p \in active :
          (pc[p] = "merge_user" /\ pc'[p] = "idle") =>
              LET system == IF ca_path[p] = "False" THEN <<>>
                            ELSE Trimmed(fs[ca_path[p]].content)
                  user == Trimmed(fs[user_ca_bundle_path].content)
                  text == fs'[merged_ca_bundle_path].content
              IN /\ text = Terminated(system) \o Terminated(user)
                 /\ (system = <<>> /\ user # <<>>) => text = user \o <<"\n">>
      ]_vars

\* A request has rewritten the merged file from an empty system bundle and a
\* user bundle with blank lines around its certificates.
C13_Witness ==
    \E p \in active :
        /\ JustReturned(p)
        /\ ca_path[p] = system_ca_bundle_path
        /\ fs[system_ca_bundle_path].exists
        /\ fs[system_ca_bundle_path].content = <<>>
        /\ fs[user_ca_bundle_path].content = <<"\n", "u2", "\n", "u3", "\n", "\n">>
        /\ fs[merged_ca_bundle_path].content = <<"u2", "\n", "u3", "\n">>
        /\ written[p] = fs[merged_ca_bundle_path].content

(***************************************************************************)
(* Properties of the Linux locator.                                        *)
(***************************************************************************)
\* The probe paths, by index, that exist with non-zero size.
Qualifying(files) ==
    { i \in 1..Len(paths) : files[paths[i]].exists /\ Len(files[paths[i]].content) > 0 }

\* C14: every step on Linux is a change of one probe path by its owner, or
\* a call of get_system_ca_bundle_path that returns the qualifying probe
\* path of least index, or False when none qualifies, invokes no builder
\* and creates or writes no file or directory.
C14_LinuxLocator ==
    [][\A p \in active :
          \/ /\ ca_path' = ca_path /\ call' = call
             /\ \E q \in ProbePaths :
                   \A f \in AllFiles \ {q} : fs'[f] = fs[f]
          \/ /\ ca_path'[p] = IF Qualifying(fs) = {} THEN "False"
                               ELSE paths[CHOOSE i \in Qualifying(fs) :
                                             \A j \in Qualifying(fs) : i <= j]
             /\ fs' = fs
             /\ dirExists' = dirExists
             /\ pc'[p] = "idle" /\ ~call'[p].invoked /\ lastBuilt' = lastBuilt
      ]_vars

\* The locator has passed over an empty file at the first path and a missing
\* second path and returned the third, with a bundle at the fourth as well
\* and no bundle directory.
C14_Witness ==
    /\ call[1].outcome = "returned"
    /\ ca_path[1] = paths[3]
    /\ fs[paths[1]] = File(<<>>, 0)
    /\ ~fs[paths[2]].exists
    /\ fs[paths[4]].exists /\ fs[paths[4]].content # <<>>
    /\ ~dirExists

(***************************************************************************)
(* Properties of the Windows export loop.                                  *)
(***************************************************************************)
\* The PEM text of the certificate with the given hash in the given store.
PemOf(e) == << BEGIN, "\n", e[1], e[2], "\n", END >>

\* C15: the certificates collected by the export loop are the PEM texts of
\* the hashes whose export produced a PFX file, one each, in the order of
\* the hashes, each the encoding of its own export; the other hashes are
\* skipped.
C15_OnePemPerExport ==
    win.at \in {"write", "done"} =>
        win.certs = [k \in 1..Len(win.exported) |-> PemOf(win.exported[k])]

\* Neither export.pfx nor export.pem exists.
NoTempFiles == win.pfx_file = None /\ win.pem_file = None

\* C16 as stated: at the start of every iteration after the first, and when
\* the builder has returned normally, neither temporary file exists.
C16_TempFilesDeleted ==
    /\ (win.at = "exportpfx" /\ win.n > 1) => NoTempFiles
    /\ win.at = "done" => NoTempFiles

\* C16 as amended: the same, for a builder that returns after at least one
\* iteration.
C16_TempFilesDeletedAfterIteration ==
    /\ (win.at = "exportpfx" /\ win.n > 1) => NoTempFiles
    /\ (win.at = "done" /\ win.n > 0) => NoTempFiles

\* A run has returned after two iterations, the first of which encoded and
\* deleted a file.
C16_Witness ==
    /\ win.at = "done"
    /\ win.n > 1
    /\ win.exported # <<>>
    /\ win.certs # <<>>
    /\ NoTempFiles

(***************************************************************************)
(* Properties of the parser of the trust settings.                         *)
(***************************************************************************)
\* The name of the last `Cert N:` line before line k (None: there is none).
CurrentName(lines, k) ==
    LET before == { j \in 1..(k - 1) : lines[j][1] = "cert" }
    IN IF before = {} THEN None
       ELSE lines[CHOOSE j \in before : \A m \in before : j >= m][2]

\* A `Policy OID : SSL` line precedes line k with no `Trust Setting N:` line
\* between the two.
InSslPolicy(lines, k) ==
    \E j \in 1..(k - 1) :
        /\ lines[j] = <<"policy_ssl">>
        /\ \A m \in (j + 1)..(k - 1) : lines[m] # <<"trust_setting">>

\* The deny result lines read while the SSL flag is true.
DenyLines(lines) ==
    { k \in 1..Len(lines) : lines[k] = <<"deny">> /\ InSslPolicy(lines, k) }

\* C17: after every prefix of the trust settings the current name is that
\* of the last `Cert N:` line and the SSL flag tells whether a `Policy OID :
\* SSL` line has been read since the last `Trust Setting N:` line, blank
\* lines changing nothing; the result holds exactly the names that were
\* current at a deny line read with the flag set, each once.
C17_TrustStateMachine ==
    [][(osx.at = "trust" /\ osx'.at = "export") =>
          LET lines == osx.result
              out == osx'.distrusted_certs
              start == [distrusted_certs |-> <<>>, cert_name |-> None,
                        ssl_policy |-> FALSE]
          IN /\ \A k \in 0..Len(lines) :
                   LET st == TrustScan(start, SubSeq(lines, 1, k))
                   IN /\ st.cert_name = CurrentName(lines, k + 1)
                      /\ st.ssl_policy = InSslPolicy(lines, k + 1)
                      /\ (k > 0 /\ lines[k] = <<"blank">>) =>
                            st = TrustScan(start, SubSeq(lines, 1, k - 1))
             /\ Elements(out) = { CurrentName(lines, k) : k \in DenyLines(lines) }
             /\ Cardinality(Elements(out)) = Len(out)
      ]_vars

\* The parser has returned two names, in the order of their deny lines.
C17_Witness ==
    /\ osx.at = "export"
    /\ osx.distrusted_certs = << "n2", "n1" >>

\* C19: a name is in the result only if some deny line was read under that
\* certificate with a `Policy OID : SSL` line between the certificate's
\* `Cert N:` line and the deny line.
C19_NoSslFlagLeak ==
    [][(osx.at = "trust" /\ osx'.at = "export") =>
          LET lines == osx.result
          IN \A n \in Elements(osx'.distrusted_certs) \cap CertNames :
                \E c, j, k \in 1..Len(lines) :
                    /\ c < j /\ j < k
                    /\ lines[c] = << "cert", n >>
                    /\ lines[j] = <<"policy_ssl">>
                    /\ lines[k] = <<"deny">>
                    /\ \A m \in (c + 1)..(k - 1) : lines[m][1] # "cert"
      ]_vars

(***************************************************************************)
(* Properties of the block-splitting scan.                                 *)
(***************************************************************************)
\* The PEM blocks among the chunks of a stream, in order.
RECURSIVE BlocksOf(_)
BlocksOf(chunks) ==
    IF chunks = <<>> THEN <<>>
    ELSE IF Head(chunks) \in { Block(b) : b \in Bodies }
         THEN << Head(chunks) >> \o BlocksOf(Tail(chunks))
         ELSE BlocksOf(Tail(chunks))

\* C18: from a stream of whole PEM blocks, with or without lines between
\* them, and with nothing distrusted, the scan collects one record for each
\* BEGIN CERTIFICATE line, in order; a record starts with the BEGIN line,
\* ends with the END line and holds the lines of its block and no other.
C18_BlockSplitting ==
    (osx.at \in {"write", "done"} /\ osx.distrusted_certs = <<>>
        /\ WellFormed(osx.chunks)) =>
        LET lines == Flatten(osx.chunks)
            blocks == BlocksOf(osx.chunks)
        IN /\ Len(osx.certs) = Cardinality({ i \in 1..Len(lines) : lines[i] = BEGIN })
           /\ Len(osx.certs) = Len(blocks)
           /\ \A i \in 1..Len(osx.certs) :
                 LET cert == osx.certs[i]
                 IN /\ cert[1] = BEGIN
                    /\ cert[Len(cert)] = END
                    /\ cert = << blocks[i][1], "\n", blocks[i][2], "\n", blocks[i][3] >>

\* The scan has collected two records from a stream that starts with a line
\* outside any block.
C18_Witness ==
    /\ osx.at = "done"
    /\ osx.distrusted_certs = <<>>
    /\ WellFormed(osx.chunks)
    /\ Len(osx.chunks) = 3
    /\ osx.chunks[1] = <<"junk">>
    /\ Len(osx.certs) = 2
    /\ osx.certs[1] # osx.certs[2]

(***************************************************************************)
(* Properties of the user bundle.                                          *)
(***************************************************************************)
\* C20: a step of a request (any step that moves a process) leaves an
\* existing user bundle as it is, content and modification time; it creates
\* the user bundle only when there is none, empty, in get_user_ca_bundle_path.
C20_UserBundleUntouched ==
    [][pc' # pc =>
          /\ fs[user_ca_bundle_path].exists =>
                fs'[user_ca_bundle_path] = fs[user_ca_bundle_path]
          /\ fs'[user_ca_bundle_path] # fs[user_ca_bundle_path] =>
                /\ fs'[user_ca_bundle_path] = File(<<>>, now)
                /\ \E p \in active : pc[p] = "user"
      ]_vars

\* A request has merged a user bundle that the user saved earlier, and the
\* user bundle still has the time of that save.
C20_Witness ==
    \E p \in active :
        /\ JustReturned(p)
        /\ fs[user_ca_bundle_path].content # <<>>
        /\ fs[user_ca_bundle_path].mtime < fs[merged_ca_bundle_path].mtime
        /\ written[p] = fs[merged_ca_bundle_path].content
        /\ written[p] # <<>>

====
